---- MODULE Spec2Model ----
(***************************************************************************)
(* Traffic-signal control core of TorontoSUMONetworks (scripts/marl_setup):*)
(* TrafficLightController, SUMOTrafficSimulator, TrafficSignalControlEnv,   *)
(* the mixing network and the training coordinator with its replay buffer. *)
(*                                                                         *)
(* Spec is the environment over its simulator.  The other specifications   *)
(* exercise one part each: SpecBuffer the replay buffer, SpecTrain the     *)
(* training loop, SpecMix the mixing network, SpecAccident the accident    *)
(* injection, SpecDetectors the detector averages, SpecTopology and        *)
(* SpecGraph the graph construction, SpecFail failing simulator calls,     *)
(* SpecAtomic pseudo_step with failing simulator calls in both action      *)
(* modes, SpecPhases the phase classification of a signal program.         *)
(*                                                                         *)
(* Time is counted in simulator steps of one second (SUMO's default step   *)
(* length), so simulation time and the step counter are integers.          *)
(*                                                                         *)
(* The methods are operators on a record of the mutable program state; the *)
(* record also carries what the calls of one operation sent, fired and     *)
(* returned (sent, fired, ps, calls).  A property of a method is stated for*)
(* a call made in any reachable state: the operator is applied to State.   *)
(***************************************************************************)
EXTENDS Integers, Sequences, FiniteSets, TLC

(* ------------------------------ bounds --------------------------------- *)
\* configured simulation end time (seconds); connect derives max_steps from it
EndTime == 9
\* vehicles loaded into a fresh simulator session
NumVehicles == 1
\* sessions ever connected in one run (construction counts as the first)
MaxEpisodes == 2
\* configured accident interval (simulation_config['accident_interval'])
AccidentInterval == 2
\* replay buffer capacity and number of pushes explored
Capacity == 3
MaxPush == 5
\* iterations of the training loop explored
MaxLoopSteps == 5
\* individual Q-values handed to the mixing network lie in -MaxQ..MaxQ
MaxQ == 1
\* vehicles drive at speeds 1..MaxSpeed before an accident
MaxSpeed == 2
\* detector readings lie in -1..MaxReading
MaxReading == 2
\* signal-state strings hold at most MaxStateLen characters
MaxStateLen == 2

(* ---------------------------- training configuration ------------------- *)
\* model_params.batch_size, warmup_steps, update_target_rate, hypernet_embed_dim
\* and config['training']['gamma']
BatchSize == 1
WarmupSteps == 1
UpdateTargetRate == 2
HypernetEmbedDim == 2
Gamma == 1

(* --------------------------- simulator input --------------------------- *)
\* the networks explored: the signal ids trafficlight.getIDList() reports, in list order
Networks == {<<"tl1">>, <<"tl2", "tl3">>}

SignalIds == {"tl1", "tl2", "tl3"}

\* the signal program of each id as getAllProgramLogics reports it: one state
\* string per phase (a string is a tuple of one-character strings)
program ==
    [c \in SignalIds |->
        CASE c = "tl1" -> << <<"G", "r">>, <<"y", "r">>, <<"r", "r">>, <<"u", "r">> >>
          [] c = "tl2" -> << <<"G", "g">>, <<"Y", "r">> >>
          [] OTHER     -> << <<"g", "r">>, <<"r", "y">> >>]

None == "None"

(* ------------------------ TrafficLightController ----------------------- *)
NumPhases == [c \in SignalIds |-> Len(program[c])]
PhaseIdx == [c \in SignalIds |-> 0..(NumPhases[c] - 1)]

Chars(state_str) == {state_str[i] : i \in 1..Len(state_str)}

\* the classification with the amber test made first
identify_phase_type_amber_first(state_str) ==
    IF "y" \in Chars(state_str) \/ "Y" \in Chars(state_str) THEN "amber"
    ELSE IF "G" \in Chars(state_str) \/ "g" \in Chars(state_str) THEN "green"
    ELSE IF \A i \in 1..Len(state_str) : state_str[i] = "r" THEN "all-red"
    ELSE "clearance"

identify_phase_type(state_str) ==
    IF "G" \in Chars(state_str) \/ "g" \in Chars(state_str) THEN "green"
    ELSE IF "y" \in Chars(state_str) \/ "Y" \in Chars(state_str) THEN "amber"
    ELSE IF \A i \in 1..Len(state_str) : state_str[i] = "r" THEN "all-red"
    ELSE "clearance"

PhaseTypes == {"green", "amber", "all-red", "clearance"}

regulatory_min_durations ==
    [t \in PhaseTypes |->
        CASE t = "green" -> 7 [] t = "amber" -> 3 [] t = "all-red" -> 1 [] OTHER -> 3]

phase_info ==
    [c \in SignalIds |->
        [p \in PhaseIdx[c] |-> [index |-> p, type |-> identify_phase_type(program[c][p + 1])]]]

phase_min_durations ==
    [c \in SignalIds |->
        [p \in PhaseIdx[c] |-> regulatory_min_durations[phase_info[c][p].type]]]

\* read_phases for the phases phs of a program: one phase_info entry per phase,
\* indexed from 0
read_phase_info(phs) ==
    [idx \in 0..(Len(phs) - 1) |->
        [index |-> idx, state |-> phs[idx + 1], type |-> identify_phase_type(phs[idx + 1])]]

\* setup_phase_durations: the regulatory minimum of each entry's type, by index
setup_phase_durations(info) ==
    [idx \in DOMAIN info |-> regulatory_min_durations[info[idx].type]]

\* the duration the program gives each phase (phase.duration), by phase type
phase_duration ==
    [c \in SignalIds |->
        [p \in PhaseIdx[c] |->
            LET t == phase_info[c][p].type
            IN CASE t = "green" -> 8 [] t = "amber" -> 3 [] t = "all-red" -> 2 [] OTHER -> 3]]

\* the permissible set without the current phase removed
state_machine_multiphase_self ==
    [c \in SignalIds |-> [i \in PhaseIdx[c] |-> PhaseIdx[c]]]

\* multiphase: every phase other than the current one is permissible
state_machine_multiphase ==
    [c \in SignalIds |-> [i \in PhaseIdx[c] |-> PhaseIdx[c] \ {i}]]

\* the next phase without the wrap-around at the end of the program
state_machine_binary_no_wrap ==
    [c \in SignalIds |->
        [i \in PhaseIdx[c] |->
            [a \in 0..1 |-> IF a = 0 \/ i + 1 >= NumPhases[c] THEN i ELSE i + 1]]]

\* binary: action 0 stays, action 1 moves to the next phase in sequence
state_machine_binary ==
    [c \in SignalIds |->
        [i \in PhaseIdx[c] |-> [a \in 0..1 |-> IF a = 0 THEN i ELSE (i + 1) % NumPhases[c]]]]

VARIABLES
    \* configuration (fixed for a run)
    action_type,               \* metrics['action_type']: "binary" | "multiphase"
    use_phase_one_hot,         \* metrics['use_phase_one_hot'] with 'current_phase' a state metric
    \* the external simulator
    traffic_light_ids,         \* the signal ids of the loaded network
    sessions,                  \* number of simulator sessions currently open
    episode,                   \* sessions connected so far
    simTime,                   \* simulation.getTime() of the open session
    simPhase,                  \* trafficlight.getPhase(id)
    simPhaseEnd,               \* time at which the simulator leaves the running phase on its own
    minExpected,               \* simulation.getMinExpectedNumber()
    \* SUMOTrafficSimulator
    simulation_running, is_truncated, is_terminated,
    simulation_max_steps, simulation_step,
    \* TrafficLightController, one per signal id
    current_phase, current_phase_start_time, phase_changes,
    \* ReplayBuffer
    buffer, pushed,
    \* TSCMARL: the parameters of the online and of the target mixing network,
    \* the step counter of train() (its local `step`) and where train() stands
    mixing_net, target_net, loop_step, train_status,
    \* the vehicles of the simulator: the vehicle ids on each lane, front first,
    \* and each vehicle's speed, deceleration and speed mode
    lane_vehicles, vehicle,
    \* the induction-loop readings of a controller's detectors and what
    \* collect_data made of them
    readings, aggregated_data,
    \* the road network the simulator reports, the interface in use and the
    \* graphs the two latest build_graph calls returned
    interface_type, controlled_lanes, lane_links, graph, graph_before,
    \* the individual Q-values handed to the mixing network and its team value
    agent_qs, q_total,
    \* the phases of the signal program a controller is configured from and
    \* what read_phases and setup_phase_durations made of them
    phases, durations,
    \* the last operation: its name and, per agent it stepped, how the call ended
    last

trainVars == <<mixing_net, target_net, loop_step, train_status>>
accidentVars == <<lane_vehicles, vehicle>>
detectorVars == <<readings, aggregated_data>>
graphVars == <<interface_type, controlled_lanes, lane_links, graph, graph_before>>
mixVars == <<agent_qs, q_total>>
phaseVars == <<phases, durations>>

vars == <<action_type, use_phase_one_hot, traffic_light_ids, sessions, episode, simTime, simPhase, simPhaseEnd,
          minExpected, simulation_running, is_truncated, is_terminated,
          simulation_max_steps, simulation_step,
          current_phase, current_phase_start_time, phase_changes,
          buffer, pushed, trainVars, accidentVars, detectorVars, graphVars, mixVars, phaseVars, last>>

cfgVars == <<action_type, use_phase_one_hot, traffic_light_ids>>

Agents == {traffic_light_ids[i] : i \in 1..Len(traffic_light_ids)}
bufVars == <<buffer, pushed>>

\* the state of the environment and of its simulator
envVars == <<sessions, episode, simTime, simPhase, simPhaseEnd, minExpected,
             simulation_running, is_truncated, is_terminated, simulation_max_steps,
             simulation_step, current_phase, current_phase_start_time, phase_changes>>

\* the value of a part of the program that a specification does not exercise
Idle == "idle"

TrainIdle ==
    mixing_net = Idle /\ target_net = Idle /\ loop_step = Idle /\ train_status = Idle
AccidentIdle == lane_vehicles = Idle /\ vehicle = Idle
DetectorIdle == readings = Idle /\ aggregated_data = Idle
GraphIdle ==
    /\ interface_type = Idle /\ controlled_lanes = Idle /\ lane_links = Idle
    /\ graph = Idle /\ graph_before = Idle
MixIdle == agent_qs = Idle /\ q_total = Idle
PhaseIdle == phases = Idle /\ durations = Idle

NoPs == [called |-> FALSE]
NoCall == [called |-> FALSE]

\* the mutable program state handed through the nested calls of one operation
State ==
    [sessions |-> sessions, episode |-> episode,
     simulation_running |-> simulation_running,
     simulation_max_steps |-> simulation_max_steps,
     simTime |-> simTime, simPhase |-> simPhase, simPhaseEnd |-> simPhaseEnd,
     minExpected |-> minExpected,
     is_truncated |-> is_truncated, is_terminated |-> is_terminated,
     simulation_step |-> simulation_step,
     current_phase |-> current_phase,
     current_phase_start_time |-> current_phase_start_time,
     phase_changes |-> phase_changes,
     max_open |-> sessions, fired |-> <<>>,
     sent |-> <<>>, ps |-> [c \in Agents |-> NoPs], calls |-> [c \in Agents |-> NoCall]]

\* trafficlight.setPhase: the simulator switches at once and runs the phase for its duration
setPhase(s, c, p) ==
    [s EXCEPT !.simPhase[c] = p, !.simPhaseEnd[c] = s.simTime + phase_duration[c][p],
              !.sent = Append(@, <<"setPhase", c, p>>)]

\* trafficlight.setPhaseDuration: the remaining duration of the running phase
setPhaseDuration(s, c, d) ==
    [s EXCEPT !.simPhaseEnd[c] = s.simTime + d,
              !.sent = Append(@, <<"setPhaseDuration", c, d>>)]

\* a commit that forgets to restart the phase timer
commit_phase_stale_timer(s, c, current_time, next_phase) ==
    LET s1 == setPhase(s, c, next_phase)
    IN [s1 EXCEPT
          !.phase_changes[c] = Append(@, [time |-> current_time,
                                          old_phase |-> s.current_phase[c],
                                          new_phase |-> next_phase]),
          !.current_phase[c] = next_phase]

\* a commit that writes its log entry after it has moved current_phase
commit_phase_log_after(s, c, current_time, next_phase) ==
    LET s1 == setPhase(s, c, next_phase)
    IN [s1 EXCEPT
          !.phase_changes[c] = Append(@, [time |-> current_time,
                                          old_phase |-> next_phase,
                                          new_phase |-> next_phase]),
          !.current_phase[c] = next_phase,
          !.current_phase_start_time[c] = current_time]

\* the body of the two committing branches of pseudo_step
commit_phase(s, c, current_time, next_phase) ==
    LET s1 == setPhase(s, c, next_phase)
    IN [s1 EXCEPT
          !.phase_changes[c] = Append(@, [time |-> current_time,
                                          old_phase |-> s.current_phase[c],
                                          new_phase |-> next_phase]),
          !.current_phase[c] = next_phase,
          !.current_phase_start_time[c] = current_time]

\* the guard one second too lenient
min_duration_met_early(elapsed_time, min_duration) == elapsed_time >= min_duration - 1

min_duration_met(elapsed_time, min_duration) == elapsed_time >= min_duration

\* the binary branch taken for every action value
binary_changes_always(action) == TRUE

\* binary mode: the action that asks for the next phase
binary_changes(action) == action = 1

pseudo_step(s, c, action) ==
    LET current_time == s.simTime
        elapsed_time == current_time - s.current_phase_start_time[c]
        min_duration == phase_min_durations[c][s.current_phase[c]]
        s1 == IF min_duration_met(elapsed_time, min_duration)
              THEN IF action_type = "multiphase"
                   THEN IF action \in state_machine_multiphase[c][s.current_phase[c]]
                        THEN commit_phase(s, c, current_time, action)
                        ELSE s
                   ELSE IF binary_changes(action)
                        THEN commit_phase(s, c, current_time,
                                          state_machine_binary[c][s.current_phase[c]][action])
                        ELSE setPhaseDuration(s, c, 5)
              ELSE s
    IN [s1 EXCEPT !.ps[c] =
          [called |-> TRUE, action |-> action, now |-> current_time,
           pre_phase |-> s.current_phase[c],
           pre_start |-> s.current_phase_start_time[c],
           pre_log |-> s.phase_changes[c],
           post_phase |-> s1.current_phase[c],
           post_start |-> s1.current_phase_start_time[c],
           post_log |-> s1.phase_changes[c],
           sent |-> SubSeq(s1.sent, Len(s.sent) + 1, Len(s1.sent))]]

(* -------------------------- SUMOTrafficSimulator ----------------------- *)
\* get_current_phase_one_hot re-reads the phase from the simulator; the scalar
\* encoding reads the controller's own field
collect_data(s, c) ==
    IF use_phase_one_hot
    THEN [s EXCEPT !.current_phase[c] = s.simPhase[c]]
    ELSE s

\* the detectors of a controller (self.detectors), in list order
Detectors == <<"e1det_a", "e1det_b", "e2det_a">>

\* detector_id.startswith('e1det_')
is_e1det(detector_id) == detector_id \in {"e1det_a", "e1det_b"}

RECURSIVE accumulate(_, _, _)
\* the loop of collect_data over the detectors from the i-th on: the sums and
\* counts of the averaged metrics
accumulate(rd, acc, i) ==
    IF i > Len(Detectors) THEN acc
    ELSE LET detector_id == Detectors[i]
             mean_speed == rd[detector_id].mean_speed
             occupancy == rd[detector_id].occupancy
             a1 == IF is_e1det(detector_id) /\ mean_speed >= 0
                   THEN [acc EXCEPT !.mean_speed = @ + mean_speed,
                                    !.mean_speed_count = @ + 1]
                   ELSE acc
             a2 == IF is_e1det(detector_id)
                   THEN [a1 EXCEPT !.occupancy = @ + occupancy,
                                   !.occupancy_count = @ + 1]
                   ELSE a1
         IN accumulate(rd, a2, i + 1)

\* sum / count where the code divides, the sum itself where it does not
quotient(sum, count) ==
    IF count > 0 THEN [num |-> sum, den |-> count] ELSE [num |-> sum, den |-> 1]

\* the averaged metrics collect_data returns for the readings rd, as fractions
collect_data_averages(rd) ==
    LET acc == accumulate(rd, [mean_speed |-> 0, mean_speed_count |-> 0,
                               occupancy |-> 0, occupancy_count |-> 0], 1)
    IN [mean_speed |-> quotient(acc.mean_speed, acc.mean_speed_count),
        occupancy |-> quotient(acc.occupancy, acc.occupancy_count)]

\* one discrete timestep of the simulator: time advances by one second, signal
\* programs whose running phase has expired move to their next phase, and a
\* vehicle may reach its destination
simulationStep(s, arrive) ==
    LET t == s.simTime + 1
        expired(c) == t >= s.simPhaseEnd[c]
        nxt(c) == (s.simPhase[c] + 1) % NumPhases[c]
    IN [s EXCEPT
          !.simTime = t,
          !.simPhase = [c \in Agents |-> IF expired(c) THEN nxt(c) ELSE s.simPhase[c]],
          !.simPhaseEnd = [c \in Agents |-> IF expired(c) THEN t + phase_duration[c][nxt(c)]
                                                        ELSE s.simPhaseEnd[c]],
          !.minExpected = IF arrive /\ s.minExpected > 0 THEN s.minExpected - 1
                                                         ELSE s.minExpected]

\* which accident trigger fires in a step (draw: random.random() < accident_probability)
accident_trigger(step, draw) ==
    IF AccidentInterval # 0 /\ step % AccidentInterval = 0 THEN "interval"
    ELSE IF draw THEN "probability"
    ELSE "none"

\* simulate_accident is called once when a trigger fires
simulate_accident(s, agent_id, trigger) ==
    IF trigger = "none" THEN s ELSE [s EXCEPT !.fired = Append(@, <<agent_id, trigger>>)]

\* lane.getIDList() of the loaded network, in list order
LaneIds == <<"lane1", "lane2">>

RECURSIVE first_pair_lane(_, _)
\* the index of the first lane from i on that holds two vehicles, 0 if there is none
first_pair_lane(lv, i) ==
    IF i > Len(LaneIds) THEN 0
    ELSE IF Len(lv[LaneIds[i]]) >= 2 THEN i
    ELSE first_pair_lane(lv, i + 1)

\* the commands simulate_accident sends for the first two vehicles of a lane
collide(veh, vehicles_on_lane) ==
    LET front_vehicle == vehicles_on_lane[1]
        back_vehicle == vehicles_on_lane[2]
        current_speed == veh[back_vehicle].speed
    IN [veh EXCEPT ![front_vehicle].speed = 0,
                   ![front_vehicle].decel = 9,
                   ![back_vehicle].speed_mode = 0,
                   ![back_vehicle].speed = current_speed + 10]

RECURSIVE collide_from(_, _, _)
\* a scan that goes on after the first pair it finds
collide_from(lv, veh, i) ==
    IF i > Len(LaneIds) THEN veh
    ELSE collide_from(lv, IF Len(lv[LaneIds[i]]) >= 2 THEN collide(veh, lv[LaneIds[i]])
                                                        ELSE veh, i + 1)

\* every lane holding two vehicles is hit
simulate_accident_every_lane(lv, veh) == collide_from(lv, veh, 1)

\* what simulate_accident does to the vehicles: lv gives the vehicles of each
\* lane (getLastStepVehicleIDs), veh the speed, deceleration and speed mode of
\* each vehicle
simulate_accident_vehicles(lv, veh) ==
    LET vehicle_ids == UNION {{lv[l][i] : i \in 1..Len(lv[l])} : l \in DOMAIN lv}
        i == first_pair_lane(lv, 1)
    IN IF vehicle_ids = {} THEN veh
       ELSE IF i = 0 THEN veh
       ELSE collide(veh, lv[LaneIds[i]])

\* lane.getEdgeID of an outgoing lane and edge.getToJunction of its edge; j0
\* is a junction without a signal
getEdgeID(lane_id) ==
    CASE lane_id = "o_tl2" -> "e_tl2" [] lane_id = "o_tl3" -> "e_tl3" [] OTHER -> "e_j0"

getToJunction(edge_id) ==
    CASE edge_id = "e_tl2" -> "tl2" [] edge_id = "e_tl3" -> "tl3" [] OTHER -> "j0"

\* {tls_id: idx for idx, tls_id in enumerate(traffic_light_ids)}
node_idx_map(ids) ==
    [c \in {ids[i] : i \in 1..Len(ids)} |->
        (CHOOSE i \in 1..Len(ids) : ids[i] = c /\ \A j \in (i + 1)..Len(ids) : ids[j] # c) - 1]

\* the edge entered from the destination to the source
edge_pair_reversed(src_idx, dest_idx) == <<dest_idx, src_idx>>

\* edge_index[0].append(src_idx); edge_index[1].append(dest_idx)
edge_pair(src_idx, dest_idx) == <<src_idx, dest_idx>>

RECURSIVE link_edges(_, _, _, _)
\* the edges the links of one lane add, from the k-th link on
link_edges(ids, src_idx, links, k) ==
    IF k > Len(links) THEN <<>>
    ELSE LET to_node_id == getToJunction(getEdgeID(links[k]))
         IN (IF to_node_id \in {ids[i] : i \in 1..Len(ids)}
             THEN <<edge_pair(src_idx, node_idx_map(ids)[to_node_id])>>
             ELSE <<>>) \o link_edges(ids, src_idx, links, k + 1)

RECURSIVE lane_edges(_, _, _, _, _)
\* the edges the controlled lanes of one signal add, from the k-th lane on
lane_edges(ids, src_idx, lanes, ll, k) ==
    IF k > Len(lanes) THEN <<>>
    ELSE link_edges(ids, src_idx, ll[lanes[k]], 1) \o lane_edges(ids, src_idx, lanes, ll, k + 1)

RECURSIVE tls_edges(_, _, _, _)
\* the edges of the signals from the i-th on; cl: getControlledLanes, ll: the
\* outgoing lanes of getLinks
tls_edges(ids, cl, ll, i) ==
    IF i > Len(ids) THEN <<>>
    ELSE lane_edges(ids, node_idx_map(ids)[ids[i]], cl[ids[i]], ll, 1)
         \o tls_edges(ids, cl, ll, i + 1)

\* the graph as a record: edge_index is the pair of the source and the target list
graph_of(ids, edges) ==
    [num_nodes |-> Len(ids),
     edge_index |-> <<[k \in 1..Len(edges) |-> edges[k][1]],
                      [k \in 1..Len(edges) |-> edges[k][2]]>>,
     node_idx_map |-> node_idx_map(ids),
     idx_node_map |-> [idx \in 0..(Len(ids) - 1) |-> ids[idx + 1]]]

build_graph_with_traci(self, ids, cl, ll) == graph_of(ids, tls_edges(ids, cl, ll, 1))

\* build_graph returned None
NoGraph == [is_none |-> TRUE]

\* a graph that leaves out the lanes of signals not at their first phase
build_graph_first_phase_only(self, iface, ids, cl, ll) ==
    IF iface = "libsumo" THEN NoGraph
    ELSE graph_of(ids, tls_edges(ids, [c \in DOMAIN cl |->
                                         IF self.current_phase[c] = 0 THEN cl[c] ELSE <<>>],
                                 ll, 1))

\* build_graph of the simulator object self: nothing for libsumo, the TraCI
\* construction for traci
build_graph(self, iface, ids, cl, ll) ==
    IF iface = "libsumo" THEN NoGraph
    ELSE build_graph_with_traci(self, ids, cl, ll)

\* initialize_environment of the environment: it subscripts the simulator's
\* network_graph, which on None is a TypeError
initialize_environment(network_graph) ==
    IF network_graph = NoGraph
    THEN [raised |-> "TypeError", edge_index |-> <<>>]
    ELSE [raised |-> None, edge_index |-> network_graph.edge_index]

\* lanearea.getLastStepHaltingNumber summed over the detectors of c: the
\* vehicles still in the network stand at the signal while it shows no green
getLastStepHaltingNumber(s, c) ==
    IF phase_info[c][s.simPhase[c]].type = "green" THEN 0 ELSE s.minExpected

\* metrics['reward_metric']
RewardMetric == "halt_count"

\* what collect_data returns: the controller's phase and the halting count
observation(s, c) ==
    [current_phase |-> s.current_phase[c], halt_count |-> getLastStepHaltingNumber(s, c)]

\* the reward metric handed on as it is
reward_of_metric(obs) == obs[RewardMetric]

\* reward = -observation[self.metrics['reward_metric']]
reward_of(obs) == 0 - obs[RewardMetric]

\* the budget test off by one
budget_exhausted_late(step, max_steps) == step > max_steps

\* the step-budget test of sumo_step
budget_exhausted(step, max_steps) == step >= max_steps

\* what a sumo_step call saw when it was entered
call_entry(s, action) ==
    [called |-> TRUE, action |-> action,
     pre_step |-> s.simulation_step, pre_time |-> s.simTime,
     pre_expected |-> s.minExpected]

\* the record of a finished sumo_step call
call_exit(s, agent_id, entry, stepped, ret) ==
    [s EXCEPT !.calls[agent_id] =
        entry @@ [stepped |-> stepped, ret |-> ret,
                  post_step |-> s.simulation_step, post_time |-> s.simTime]]

sumo_step(s, agent_id, action, draw, arrive) ==
    LET entry == call_entry(s, action)
    IN IF budget_exhausted(s.simulation_step, s.simulation_max_steps)
       THEN call_exit([s EXCEPT !.is_truncated = TRUE], agent_id, entry, FALSE,
                      <<None, None, TRUE>>)
       ELSE IF s.minExpected = 0
       THEN call_exit([s EXCEPT !.is_terminated = TRUE], agent_id, entry, FALSE,
                      <<None, None, TRUE>>)
       ELSE
         LET s0 == simulate_accident(s, agent_id, accident_trigger(s.simulation_step, draw))
             s1 == pseudo_step(s0, agent_id, action)
             s2 == simulationStep(s1, arrive)
             s3 == [s2 EXCEPT !.simulation_step = @ + 1]
             s4 == collect_data(s3, agent_id)
             done == s4.is_truncated \/ s4.is_terminated
             obs == observation(s4, agent_id)
             s5 == call_exit(s4, agent_id, entry, TRUE, <<"observation", "reward", done>>)
         IN [s5 EXCEPT !.calls[agent_id] =
                @ @@ [observation |-> obs, reward |-> reward_of(obs)]]

\* a fresh simulator session: time 0, every signal program at its first phase
connect_to_sumo(s) ==
    [s EXCEPT
       !.sessions = @ + 1, !.episode = @ + 1,
       !.max_open = IF s.sessions + 1 > @ THEN s.sessions + 1 ELSE @,
       !.simTime = 0,
       !.simPhase = [c \in Agents |-> 0],
       !.simPhaseEnd = [c \in Agents |-> phase_duration[c][0]],
       !.minExpected = NumVehicles,
       !.simulation_running = TRUE,
       !.is_truncated = FALSE,
       !.is_terminated = FALSE,
       !.simulation_max_steps = EndTime,
       !.simulation_step = 0]

close_sumo(s) ==
    IF s.simulation_running
    THEN [s EXCEPT !.sessions = @ - 1,
                   !.simulation_running = FALSE,
                   !.is_terminated = TRUE]
    ELSE s

reset_tl(s, c, initial_phase) ==
    LET s1 == setPhase(s, c, initial_phase)
    IN [s1 EXCEPT !.current_phase[c] = initial_phase,
                  !.current_phase_start_time[c] = s1.simTime,
                  !.phase_changes[c] = <<>>]

(* ------------------------ TrafficSignalControlEnv ---------------------- *)
RECURSIVE collect_all(_, _)
collect_all(s, i) ==
    IF i > Len(traffic_light_ids) THEN s
    ELSE collect_all(collect_data(s, traffic_light_ids[i]), i + 1)

\* the generator of env.step: one sumo_step per entry of the action map, in map order
RECURSIVE step_all(_, _, _, _, _)
step_all(s, actions, draw, arrive, i) ==
    IF i > Len(traffic_light_ids) THEN s
    ELSE LET a == traffic_light_ids[i]
         IN step_all(IF a \in DOMAIN actions
                     THEN sumo_step(s, a, actions[a], draw[a], arrive[a])
                     ELSE s,
                     actions, draw, arrive, i + 1)

\* Python truth value of the tuple a sumo_step call returns
truthy(ret) == Len(ret) > 0

\* done = all(sumo_step(...) for ...)
all_done(s, actions) == \A a \in DOMAIN actions : truthy(s.calls[a].ret)

env_step(s, actions, draw, arrive) ==
    LET s1 == step_all(s, actions, draw, arrive, 1)
        done == all_done(s1, actions)
    IN IF done
       THEN [state |-> s1, ret |-> <<None, None, None, TRUE>>]
       ELSE [state |-> collect_all(s1, 1),
             ret |-> <<"observations", "global_state", "reward", FALSE>>]

\* a reset that connects without closing the running session
env_reset_no_close(s) == collect_all(connect_to_sumo(s), 1)

env_reset(s) == collect_all(connect_to_sumo(close_sumo(s)), 1)

(* --------------------------------- ReplayBuffer ------------------------ *)
\* eviction one push too late
push_late_evict(buf, item) ==
    IF Len(buf) > Capacity THEN Append(Tail(buf), item) ELSE Append(buf, item)

\* push appends and evicts the oldest entry once the buffer is at capacity
push(buf, item) ==
    IF Len(buf) >= Capacity THEN Append(Tail(buf), item) ELSE Append(buf, item)

(* -------------------------------- MixingNetwork ------------------------ *)
\* Values are integers.  The parameters of a mixing network are given by what
\* its four hypernetworks put out for the global state at hand: w1 (one row per
\* agent), b1, w2 and b2, each before the absolute value is taken.  The team
\* value is counted in thousandths, which is the precision ELU is kept to.
EmbedIdx == 1..HypernetEmbedDim

abs(x) == IF x < 0 THEN 0 - x ELSE x

\* F.elu in thousandths: x for x > 0, exp(x) - 1 otherwise
elu(x) ==
    IF x > 0 THEN 1000 * x
    ELSE CASE x = 0 -> 0 [] x = -1 -> -632 [] x = -2 -> -865 [] x = -3 -> -950
           [] x = -4 -> -982 [] x = -5 -> -993 [] x = -6 -> -998 [] x = -7 -> -999
           [] OTHER -> -1000

\* f[1] + ... + f[n]
RECURSIVE SumTo(_, _)
SumTo(f, n) == IF n = 0 THEN 0 ELSE f[n] + SumTo(f, n - 1)

\* the mixing weights applied as the hypernetworks put them out
forward_signed(p, qs) ==
    LET n == Len(qs)
        hidden == [j \in EmbedIdx |->
                      elu(SumTo([i \in 1..n |-> qs[i] * p.w1[i][j]], n) + p.b1[j])]
    IN SumTo([j \in EmbedIdx |-> hidden[j] * p.w2[j]], HypernetEmbedDim) + 1000 * p.b2

\* MixingNetwork.forward for one sample of the batch
forward(p, qs) ==
    LET n == Len(qs)
        w1 == [i \in 1..n |-> [j \in EmbedIdx |-> abs(p.w1[i][j])]]
        hidden == [j \in EmbedIdx |->
                      elu(SumTo([i \in 1..n |-> qs[i] * w1[i][j]], n) + p.b1[j])]
        w2 == [j \in EmbedIdx |-> abs(p.w2[j])]
    IN SumTo([j \in EmbedIdx |-> hidden[j] * w2[j]], HypernetEmbedDim) + 1000 * p.b2

(* ----------------------------------- TSCMARL --------------------------- *)
\* the fields of the training coordinator handed through one loop iteration
Trainer ==
    [mixing_net |-> mixing_net, target_net |-> target_net, buffer |-> buffer,
     loop_step |-> loop_step, train_status |-> train_status]

aggregate_q_values(t, max_q_values_by_agent) == forward(t.mixing_net, max_q_values_by_agent)

\* train_step with a batch of one transition, the k-th of the buffer (is_none:
\* its rewards, next observations and next global state are None); qs and
\* next_qs are the agents' maximal Q-values for its observations and next
\* observations, updated the mixing parameters the optimizer arrives at
train_step(t, k, qs, next_qs, updated) ==
    IF Len(t.buffer) < BatchSize
    THEN [trainer |-> t, trained |-> FALSE, sampled |-> FALSE, raised |-> None, loss |-> 0]
    ELSE LET transition == t.buffer[k]
         IN IF transition.is_none
            THEN [trainer |-> t, trained |-> FALSE, sampled |-> TRUE,
                  raised |-> "TypeError", loss |-> None]
            ELSE LET q_tot == aggregate_q_values(t, qs)
                     next_q_total == aggregate_q_values(t, next_qs)
                     dones == IF transition.done THEN 1 ELSE 0
                     target_q_total == 1000 * transition.rewards
                                       + Gamma * (1 - dones) * next_q_total
                 IN [trainer |-> [t EXCEPT !.mixing_net = updated],
                     trained |-> TRUE, sampled |-> TRUE, raised |-> None,
                     q_total |-> q_tot, next_q_total |-> next_q_total,
                     target_q_total |-> target_q_total,
                     loss |-> (q_tot - target_q_total) * (q_tot - target_q_total)]

update_target_network(t) == [t EXCEPT !.target_net = t.mixing_net]

\* a synchronisation after every step
sync_due_every_step(n) == TRUE

\* the cadence test of train(), made after the increment of the step counter
sync_due(n) == n % UpdateTargetRate = 0

\* the rest of an iteration once push and train_step are through: line 217,
\* the test of done, the increment and the synchronisation
finish_iteration(ret, ts, ops) ==
    LET t2 == ts.trainer
    IN IF ts.raised # None
       THEN [trainer |-> [t2 EXCEPT !.train_status = "crashed"], ts |-> ts, synced |-> FALSE,
             ops |-> ops]
       ELSE IF ret.is_none
       THEN \* sum(rewards.values()) on None
            [trainer |-> [t2 EXCEPT !.train_status = "crashed"], ts |-> ts, synced |-> FALSE,
             ops |-> ops]
       ELSE IF ret.done
       THEN [trainer |-> [t2 EXCEPT !.train_status = "episode_done"], ts |-> ts,
             synced |-> FALSE, ops |-> ops]
       ELSE LET t3 == [t2 EXCEPT !.loop_step = @ + 1]
            IN IF sync_due(t3.loop_step)
               THEN [trainer |-> update_target_network(t3), ts |-> ts, synced |-> TRUE,
                     ops |-> ops]
               ELSE [trainer |-> t3, ts |-> ts, synced |-> FALSE, ops |-> ops]

\* no train_step call in an iteration
NoTrainStep(t) ==
    [trainer |-> t, trained |-> FALSE, sampled |-> FALSE, raised |-> None, loss |-> 0]

\* an iteration that trains before it pushes the transition of its step
train_iteration_train_first(t, ret, k, qs, next_qs, updated) ==
    LET ts0 == IF t.loop_step >= WarmupSteps
               THEN train_step(t, IF k > Len(t.buffer) THEN 1 ELSE k, qs, next_qs, updated)
               ELSE NoTrainStep(t)
        ts == [ts0 EXCEPT !.trainer.buffer = push(@, ret)]
    IN finish_iteration(ret, ts, (IF ts.sampled THEN <<"sample">> ELSE <<>>) \o <<"push">>)

\* one iteration of the while loop of train(); ret is what env.step handed
\* back; ops are the operations on the replay buffer in the order they are made
train_iteration(t, ret, k, qs, next_qs, updated) ==
    LET t1 == [t EXCEPT !.buffer = push(@, ret)]
        ts == IF t.loop_step >= WarmupSteps
              THEN train_step(t1, k, qs, next_qs, updated)
              ELSE NoTrainStep(t1)
    IN finish_iteration(ret, ts, <<"push">> \o (IF ts.sampled THEN <<"sample">> ELSE <<>>))

(* ------------------------------- state machine ------------------------- *)
\* Discrete(2) or Discrete(num_phases), and one value outside the space
ActionSpace(c) == IF action_type = "binary" THEN 0..1 ELSE 0..NumPhases[c]

\* action maps handed to env.step: select_actions gives one action per agent
ActionMaps == {m \in [Agents -> 0..4] : \A c \in Agents : m[c] \in ActionSpace(c)}

\* the outcome of random.random() < accident_probability; the draw changes no
\* state of this model, so the calls of one env.step are given the same outcome
Draws == {[c \in Agents |-> b] : b \in BOOLEAN}

Transitions == 1..MaxPush

Commit(s) ==
    /\ sessions' = s.sessions
    /\ episode' = s.episode
    /\ simTime' = s.simTime
    /\ simPhase' = s.simPhase
    /\ simPhaseEnd' = s.simPhaseEnd
    /\ minExpected' = s.minExpected
    /\ simulation_running' = s.simulation_running
    /\ is_truncated' = s.is_truncated
    /\ is_terminated' = s.is_terminated
    /\ simulation_max_steps' = s.simulation_max_steps
    /\ simulation_step' = s.simulation_step
    /\ current_phase' = s.current_phase
    /\ current_phase_start_time' = s.current_phase_start_time
    /\ phase_changes' = s.phase_changes

RECURSIVE reset_all(_, _, _)
reset_all(s, initial, i) ==
    IF i > Len(traffic_light_ids) THEN s
    ELSE reset_all(reset_tl(s, traffic_light_ids[i], initial[traffic_light_ids[i]]), initial, i + 1)

Blank ==
    [sessions |-> 0, episode |-> 0, simulation_running |-> FALSE,
     simulation_max_steps |-> 0, simTime |-> 0,
     simPhase |-> [c \in Agents |-> 0], simPhaseEnd |-> [c \in Agents |-> 0],
     minExpected |-> 0, is_truncated |-> FALSE, is_terminated |-> FALSE,
     simulation_step |-> 0,
     current_phase |-> [c \in Agents |-> 0],
     current_phase_start_time |-> [c \in Agents |-> 0],
     phase_changes |-> [c \in Agents |-> <<>>],
     max_open |-> 0, fired |-> <<>>,
     sent |-> <<>>, ps |-> [c \in Agents |-> NoPs], calls |-> [c \in Agents |-> NoCall]]

\* the state after TrafficSignalControlEnv.__init__: initialize_sumo has connected
\* and built one controller per signal id, each reset to a random phase
initialize_sumo(initial) == reset_all(connect_to_sumo(Blank), initial, 1)

\* the environment and its simulator in state s
InitWithEnv(s) ==
    /\ sessions = s.sessions
    /\ episode = s.episode
    /\ simTime = s.simTime
    /\ simPhase = s.simPhase
    /\ simPhaseEnd = s.simPhaseEnd
    /\ minExpected = s.minExpected
    /\ simulation_running = s.simulation_running
    /\ is_truncated = s.is_truncated
    /\ is_terminated = s.is_terminated
    /\ simulation_max_steps = s.simulation_max_steps
    /\ simulation_step = s.simulation_step
    /\ current_phase = s.current_phase
    /\ current_phase_start_time = s.current_phase_start_time
    /\ phase_changes = s.phase_changes

InitWith(s) ==
    /\ InitWithEnv(s)
    /\ buffer = <<>>
    /\ pushed = <<>>
    /\ TrainIdle /\ AccidentIdle /\ DetectorIdle /\ GraphIdle /\ MixIdle
    /\ PhaseIdle
    /\ last = [op |-> "init"]

InitialPhases == {f \in [Agents -> 0..3] : \A c \in Agents : f[c] \in PhaseIdx[c]}

Init ==
    /\ action_type \in {"binary", "multiphase"}
    /\ use_phase_one_hot \in BOOLEAN
    /\ traffic_light_ids \in Networks
    /\ \E initial \in InitialPhases : InitWith(initialize_sumo(initial))

\* the simulator can be asked only while a session is open; with the budget
\* exhausted sumo_step returns before it asks anything
CanStep == simulation_running \/ budget_exhausted(simulation_step, simulation_max_steps)

\* how a sumo_step call ended: cut short by a termination condition, or what
\* its pseudo_step found and did
outcome(s, a) ==
    IF ~s.calls[a].stepped
    THEN (IF s.calls[a].pre_step >= s.simulation_max_steps THEN "budget" ELSE "no_vehicles")
    ELSE IF s.ps[a].post_log # s.ps[a].pre_log THEN "committed"
    ELSE IF s.ps[a].now - s.ps[a].pre_start < phase_min_durations[a][s.ps[a].pre_phase]
         THEN "too_early"
    ELSE IF s.ps[a].sent # <<>> THEN "extended"
    ELSE "refused"

EnvStep(actions, draw, arrive) ==
    /\ CanStep
    /\ \E r \in {env_step(State, actions, draw, arrive)} :
          /\ Commit(r.state)
          /\ last' = [op |-> "step",
                      outcome |-> [a \in DOMAIN actions |-> outcome(r.state, a)],
                      advanced |-> r.state.simTime - simTime,
                      ret |-> r.ret]
    /\ UNCHANGED <<cfgVars, phaseVars, bufVars, trainVars, accidentVars, detectorVars, graphVars, mixVars>>

EnvReset ==
    /\ episode < MaxEpisodes
    /\ Commit(env_reset(State))
    /\ last' = [op |-> "reset", was_running |-> simulation_running,
                max_open |-> env_reset(State).max_open]
    /\ UNCHANGED <<cfgVars, phaseVars, bufVars, trainVars, accidentVars, detectorVars, graphVars, mixVars>>

EnvClose ==
    /\ Commit(close_sumo(State))
    /\ last' = [op |-> "close", was_running |-> simulation_running]
    /\ UNCHANGED <<cfgVars, phaseVars, bufVars, trainVars, accidentVars, detectorVars, graphVars, mixVars>>

Next ==
    \/ \E actions \in ActionMaps, draw \in Draws, arrive \in [Agents -> BOOLEAN] :
          EnvStep(actions, draw, arrive)
    \/ EnvReset
    \/ EnvClose

Spec == Init /\ [][Next]_vars

(* the replay buffer on its own: transitions are pushed one after the other *)
Push(item) ==
    /\ Len(pushed) < MaxPush
    /\ buffer' = push(buffer, item)
    /\ pushed' = Append(pushed, item)
    /\ last' = [op |-> "push", item |-> item]
    /\ UNCHANGED <<cfgVars, phaseVars, sessions, episode, simTime, simPhase, simPhaseEnd, minExpected,
                   simulation_running, is_truncated, is_terminated, simulation_max_steps,
                   simulation_step, current_phase, current_phase_start_time, phase_changes,
                   trainVars, accidentVars, detectorVars, graphVars, mixVars>>

InitBuffer ==
    /\ action_type = "binary"
    /\ use_phase_one_hot = FALSE
    /\ traffic_light_ids = <<"tl1">>
    /\ InitWith(initialize_sumo([c \in Agents |-> 0]))

NextBuffer == \E item \in Transitions : Push(item)

SpecBuffer == InitBuffer /\ [][NextBuffer]_vars

(* the training loop of TSCMARL.train over an environment given by what its
   step() hands back *)
\* hypernetwork outputs with every entry of a tensor alike
Uniform(a, b, c, d) ==
    [w1 |-> [i \in 1..Len(traffic_light_ids) |-> [j \in EmbedIdx |-> a]],
     b1 |-> [j \in EmbedIdx |-> b], w2 |-> [j \in EmbedIdx |-> c], b2 |-> d]

\* the parameter values the two mixing networks take in the training runs
TrainParams ==
    {Uniform(0, 0, 1, 0), Uniform(1, 0, 1, 0), Uniform(-1, -1, -1, 1), Uniform(1, 0, 0, 1)}

\* the agents' maximal Q-values for the observations of a sampled transition
TrainQs == {[i \in 1..Len(traffic_light_ids) |-> q] : q \in {0, 1}}

\* what env.step hands back: (None, None, None, True, {}) when it finds the
\* episode done, observations, global state and rewards with done = False otherwise
EnvReturns ==
    {[done |-> TRUE, is_none |-> TRUE, rewards |-> 0],
     [done |-> FALSE, is_none |-> FALSE, rewards |-> -1]}

CommitTrainer(t) ==
    /\ mixing_net' = t.mixing_net
    /\ target_net' = t.target_net
    /\ buffer' = t.buffer
    /\ loop_step' = t.loop_step
    /\ train_status' = t.train_status

\* the head of the episode loop: env.reset() and step = 0
TrainEpisode ==
    /\ train_status \in {"constructed", "episode_done"}
    /\ train_status' = "running"
    /\ loop_step' = 0
    /\ last' = [op |-> "train_episode"]
    /\ UNCHANGED <<cfgVars, phaseVars, envVars, bufVars, mixing_net, target_net,
                   accidentVars, detectorVars, graphVars, mixVars>>

TrainIteration(ret, k, qs, next_qs, updated) ==
    /\ train_status = "running"
    /\ loop_step < MaxLoopSteps
    /\ k <= Len(buffer) + 1
    /\ \E r \in {train_iteration(Trainer, ret, k, qs, next_qs, updated)} :
          /\ CommitTrainer(r.trainer)
          /\ pushed' = Append(pushed, ret)
          /\ last' = [op |-> "train_iteration", trained |-> r.ts.trained,
                      synced |-> r.synced, target_before |-> target_net,
                      ops |-> r.ops, ret |-> ret]
    /\ UNCHANGED <<cfgVars, phaseVars, envVars, accidentVars, detectorVars, graphVars, mixVars>>

InitTrain ==
    /\ action_type = "binary"
    /\ use_phase_one_hot = FALSE
    /\ traffic_light_ids = <<"tl2", "tl3">>
    /\ InitWithEnv(initialize_sumo([c \in Agents |-> 0]))
    /\ buffer = <<>>
    /\ pushed = <<>>
    /\ mixing_net \in TrainParams
    /\ target_net \in TrainParams
    /\ loop_step = 0
    /\ train_status = "constructed"
    /\ AccidentIdle /\ DetectorIdle /\ GraphIdle /\ MixIdle
    /\ PhaseIdle
    /\ last = [op |-> "init"]

NextTrain ==
    \/ TrainEpisode
    \/ \E ret \in EnvReturns, k \in 1..Capacity, qs \in TrainQs, next_qs \in TrainQs,
          updated \in TrainParams :
          TrainIteration(ret, k, qs, next_qs, updated)

SpecTrain == InitTrain /\ [][NextTrain]_vars

(* the controller and the simulator with simulator calls that may raise *)
\* the exception a failing simulator call raises
SimulatorError == "TraCIException"

\* the simulator call that raises in an operation ("none": every call succeeds)
Faults ==
    {"none", "getAllProgramLogics", "getControlledLinks", "getTime", "setPhase",
     "setPhaseDuration", "getMinExpectedNumber", "simulationStep", "getPhase"}

\* read_phases: a failure of getAllProgramLogics is logged and answered with []
\* before phase_info is assigned
read_phases(c, fault) ==
    IF fault = "getAllProgramLogics"
    THEN [phases |-> <<>>, has_phase_info |-> FALSE, swallowed |-> TRUE]
    ELSE [phases |-> program[c], has_phase_info |-> TRUE, swallowed |-> FALSE]

\* reset_tl with its except clause: log and raise
try_reset_tl(s, c, initial_phase, fault) ==
    IF fault \in {"setPhase", "getTime"}
    THEN [state |-> s, failed |-> TRUE, raised |-> SimulatorError]
    ELSE [state |-> reset_tl(s, c, initial_phase), failed |-> FALSE, raised |-> None]

\* configure_traffic_light: read_phases, initialize_detectors,
\* setup_phase_durations, setup_state_machine, reset_tl
configure_traffic_light(s, c, initial_phase, fault) ==
    LET rp == read_phases(c, fault)
    IN IF fault = "getControlledLinks"
       THEN [state |-> s, failed |-> TRUE, raised |-> SimulatorError]
       ELSE IF ~rp.has_phase_info
       THEN \* setup_phase_durations iterates over self.phase_info
            [state |-> s, failed |-> rp.swallowed, raised |-> "AttributeError"]
       ELSE try_reset_tl(s, c, initial_phase, fault)

RECURSIVE configure_all(_, _, _, _, _)
\* initialize_traffic_signal_controllers: one controller per signal id, in
\* list order; the calls for controller fault_at are the ones that may raise
configure_all(s, initial, fault_at, fault, i) ==
    IF i > Len(traffic_light_ids) THEN [state |-> s, failed |-> FALSE, raised |-> None]
    ELSE LET c == traffic_light_ids[i]
             r == configure_traffic_light(s, c, initial[c],
                                          IF c = fault_at THEN fault ELSE "none")
         IN IF r.raised # None THEN r
            ELSE configure_all(r.state, initial, fault_at, fault, i + 1)

\* a branch that writes its log entry before it sends its command
raised_in_branch_after_log(s, r) == [s EXCEPT !.phase_changes = r.phase_changes]

\* where a raising setPhase or setPhaseDuration leaves a pseudo_step call that
\* would have taken s to r: the command is the first statement of its branch
raised_in_branch(s, r) == s

\* pseudo_step with its except clause: log and raise
try_pseudo_step(s, c, action, fault) ==
    IF fault = "getTime"
    THEN [state |-> s, failed |-> TRUE, raised |-> SimulatorError]
    ELSE LET r == pseudo_step(s, c, action)
             cmds == r.ps[c].sent
         IN IF \E i \in 1..Len(cmds) : cmds[i][1] = fault
            THEN [state |-> raised_in_branch(s, r), failed |-> TRUE,
                  raised |-> SimulatorError]
            ELSE [state |-> r, failed |-> FALSE, raised |-> None]

\* sumo_step with its except clause: log and raise
try_sumo_step(s, agent_id, action, draw, arrive, fault) ==
    LET done == [state |-> sumo_step(s, agent_id, action, draw, arrive),
                 failed |-> FALSE, raised |-> None]
    IN IF budget_exhausted(s.simulation_step, s.simulation_max_steps) THEN done
       ELSE IF fault = "getMinExpectedNumber"
       THEN [state |-> s, failed |-> TRUE, raised |-> SimulatorError]
       ELSE IF s.minExpected = 0 THEN done
       ELSE LET s0 == simulate_accident(s, agent_id,
                                        accident_trigger(s.simulation_step, draw))
                ps == try_pseudo_step(s0, agent_id, action, fault)
            IN IF ps.failed THEN ps
               ELSE IF fault = "simulationStep"
               THEN [state |-> ps.state, failed |-> TRUE, raised |-> SimulatorError]
               ELSE IF fault = "getPhase" /\ use_phase_one_hot
               THEN [state |-> [simulationStep(ps.state, arrive)
                                   EXCEPT !.simulation_step = @ + 1],
                     failed |-> TRUE, raised |-> SimulatorError]
               ELSE done

\* the program goes on only while no exception has reached the caller
Alive == last.raised = None

InitializeControllers(initial, fault_at, fault) ==
    /\ last.op = "init"
    /\ \E r \in {configure_all(State, initial, fault_at, fault, 1)} :
          /\ Commit(r.state)
          /\ last' = [op |-> "configure", fault |-> fault, failed |-> r.failed,
                      raised |-> r.raised]
    /\ UNCHANGED <<cfgVars, phaseVars, bufVars, trainVars, accidentVars, detectorVars, graphVars, mixVars>>

TrySumoStep(agent_id, action, draw, arrive, fault) ==
    /\ last.op # "init"
    /\ Alive
    /\ CanStep
    /\ \E r \in {try_sumo_step(State, agent_id, action, draw, arrive, fault)} :
          /\ Commit(r.state)
          /\ last' = [op |-> "sumo_step", fault |-> fault, failed |-> r.failed,
                      raised |-> r.raised]
    /\ UNCHANGED <<cfgVars, phaseVars, bufVars, trainVars, accidentVars, detectorVars, graphVars, mixVars>>

\* the simulator is connected and no controller is built yet
InitFail ==
    /\ action_type = "binary"
    /\ use_phase_one_hot \in BOOLEAN
    /\ traffic_light_ids = <<"tl2", "tl3">>
    /\ InitWithEnv(connect_to_sumo(Blank))
    /\ buffer = <<>>
    /\ pushed = <<>>
    /\ TrainIdle /\ AccidentIdle /\ DetectorIdle /\ GraphIdle /\ MixIdle
    /\ PhaseIdle
    /\ last = [op |-> "init", fault |-> "none", failed |-> FALSE, raised |-> None]

NextFail ==
    \/ \E initial \in InitialPhases, fault_at \in Agents, fault \in Faults :
          InitializeControllers(initial, fault_at, fault)
    \/ \E agent_id \in Agents, draw \in BOOLEAN, arrive \in BOOLEAN, fault \in Faults :
          \E action \in ActionSpace(agent_id) :
             TrySumoStep(agent_id, action, draw, arrive, fault)

SpecFail == InitFail /\ [][NextFail]_vars

(* sumo_step over configured controllers, with the simulator calls of
   pseudo_step the ones that may raise *)
\* the simulator calls pseudo_step makes
PseudoStepFaults == {"none", "getTime", "setPhase", "setPhaseDuration"}

\* the state after initialize_sumo has built every controller
InitAtomic ==
    /\ action_type \in {"binary", "multiphase"}
    /\ use_phase_one_hot = FALSE
    /\ traffic_light_ids \in Networks
    /\ \E initial \in InitialPhases : InitWithEnv(initialize_sumo(initial))
    /\ buffer = <<>>
    /\ pushed = <<>>
    /\ TrainIdle /\ AccidentIdle /\ DetectorIdle /\ GraphIdle /\ MixIdle
    /\ PhaseIdle
    /\ last = [op |-> "configure", fault |-> "none", failed |-> FALSE, raised |-> None]

NextAtomic ==
    \E agent_id \in Agents, arrive \in BOOLEAN, fault \in PseudoStepFaults :
       \E action \in ActionSpace(agent_id) :
          TrySumoStep(agent_id, action, FALSE, arrive, fault)

SpecAtomic == InitAtomic /\ [][NextAtomic]_vars

(* MixingNetwork.forward on its own, for one global state and fixed parameters *)
\* hypernetwork outputs lie in -MaxWeight..MaxWeight
MaxWeight == 1

\* what the hypernetworks put out for the global state
MixParams ==
    [w1 : [1..Len(traffic_light_ids) -> [EmbedIdx -> (0 - MaxWeight)..MaxWeight]],
     b1 : [EmbedIdx -> -1..0],
     w2 : [EmbedIdx -> (0 - MaxWeight)..MaxWeight],
     b2 : {1}]

\* the agents' individual Q-values
QVectors == [1..Len(traffic_light_ids) -> (0 - MaxQ)..MaxQ]

Forward(qs) ==
    /\ agent_qs' = qs
    /\ q_total' = forward(mixing_net, qs)
    /\ last' = [op |-> "forward"]
    /\ UNCHANGED <<cfgVars, phaseVars, envVars, bufVars, trainVars, accidentVars, detectorVars,
                   graphVars>>

InitMix ==
    /\ action_type = "binary"
    /\ use_phase_one_hot = FALSE
    /\ traffic_light_ids = <<"tl2", "tl3">>
    /\ InitWithEnv(initialize_sumo([c \in Agents |-> 0]))
    /\ buffer = <<>>
    /\ pushed = <<>>
    /\ mixing_net \in MixParams
    /\ target_net = Idle /\ loop_step = Idle /\ train_status = Idle
    /\ agent_qs \in QVectors
    /\ q_total = 0
    /\ AccidentIdle /\ DetectorIdle /\ GraphIdle
    /\ PhaseIdle
    /\ last = [op |-> "init"]

NextMix == \E qs \in QVectors : Forward(qs)

SpecMix == InitMix /\ [][NextMix]_vars

(* build_graph over the topology the simulator reports *)
InLanes == {"in_a", "in_b"}

\* no build_graph call has returned yet
NotBuilt == [called |-> FALSE]

BuildGraph ==
    /\ simulation_running
    /\ graph_before' = graph
    /\ graph' = build_graph(State, interface_type, traffic_light_ids, controlled_lanes,
                            lane_links)
    /\ last' = [op |-> "build_graph"]
    /\ UNCHANGED <<cfgVars, phaseVars, envVars, bufVars, trainVars, accidentVars, detectorVars,
                   interface_type, controlled_lanes, lane_links, mixVars>>

\* the outgoing lanes getLinks reports for a lane
LinkSeqs ==
    {<<>>, <<"o_tl2">>, <<"o_tl3">>, <<"o_j0">>, <<"o_tl3", "o_j0">>, <<"o_tl3", "o_tl3">>}

\* getControlledLanes of the two signals
ControlledLanes ==
    {[tl2 |-> <<"in_a">>, tl3 |-> <<"in_b">>],
     [tl2 |-> <<"in_a", "in_b">>, tl3 |-> <<>>],
     [tl2 |-> <<"in_a", "in_a">>, tl3 |-> <<"in_b">>]}

\* build_graph on its own: the topology is drawn, then the graph is built
InitTopology ==
    /\ action_type = "binary"
    /\ use_phase_one_hot = FALSE
    /\ traffic_light_ids = <<"tl2", "tl3">>
    /\ InitWithEnv(initialize_sumo([c \in Agents |-> 0]))
    /\ buffer = <<>>
    /\ pushed = <<>>
    /\ interface_type \in {"traci", "libsumo"}
    /\ controlled_lanes \in ControlledLanes
    /\ lane_links \in [InLanes -> LinkSeqs]
    /\ graph = NotBuilt
    /\ graph_before = NotBuilt
    /\ TrainIdle /\ AccidentIdle /\ DetectorIdle /\ MixIdle
    /\ PhaseIdle
    /\ last = [op |-> "init"]

NextTopology == BuildGraph

SpecTopology == InitTopology /\ [][NextTopology]_vars

\* the environment after construction (initialize_sumo has built network_graph)
\* stepped, reset and closed, with build_graph called again in between
InitGraph ==
    /\ action_type = "binary"
    /\ use_phase_one_hot = FALSE
    /\ traffic_light_ids = <<"tl2", "tl3">>
    /\ InitWithEnv(initialize_sumo([c \in Agents |-> 0]))
    /\ buffer = <<>>
    /\ pushed = <<>>
    /\ interface_type = "traci"
    /\ controlled_lanes = [tl2 |-> <<"in_a">>, tl3 |-> <<"in_b">>]
    /\ lane_links \in [InLanes -> {<<"o_tl2", "o_tl3">>, <<"o_j0">>}]
    /\ graph = build_graph(initialize_sumo([c \in Agents |-> 0]), interface_type,
                           traffic_light_ids, controlled_lanes, lane_links)
    /\ graph_before = NotBuilt
    /\ TrainIdle /\ AccidentIdle /\ DetectorIdle /\ MixIdle
    /\ PhaseIdle
    /\ last = [op |-> "init"]

NextGraph ==
    \/ BuildGraph
    \/ \E actions \in ActionMaps, draw \in Draws, arrive \in [Agents -> BOOLEAN] :
          EnvStep(actions, draw, arrive)
    \/ EnvReset
    \/ EnvClose

SpecGraph == InitGraph /\ [][NextGraph]_vars

(* collect_data on its own, over the readings of a controller's detectors *)
\* getLastStepMeanSpeed and getLastStepOccupancy of each detector; a negative
\* value is an invalid reading
Readings ==
    [{Detectors[i] : i \in 1..Len(Detectors)} ->
        [mean_speed : -1..MaxReading, occupancy : -1..MaxReading]]

CollectData ==
    /\ aggregated_data' = collect_data_averages(readings)
    /\ last' = [op |-> "collect_data"]
    /\ UNCHANGED <<cfgVars, phaseVars, envVars, bufVars, trainVars, accidentVars, readings,
                   graphVars, mixVars>>

InitDetectors ==
    /\ action_type = "binary"
    /\ use_phase_one_hot = FALSE
    /\ traffic_light_ids = <<"tl1">>
    /\ InitWithEnv(initialize_sumo([c \in Agents |-> 0]))
    /\ buffer = <<>>
    /\ pushed = <<>>
    /\ readings \in {rd \in Readings : rd["e2det_a"] = [mean_speed |-> 0, occupancy |-> 0]}
    /\ aggregated_data = None
    /\ TrainIdle /\ AccidentIdle /\ GraphIdle /\ MixIdle
    /\ PhaseIdle
    /\ last = [op |-> "init"]

NextDetectors == CollectData

SpecDetectors == InitDetectors /\ [][NextDetectors]_vars

(* simulate_accident on its own, over the vehicles the simulator holds *)
VehicleIds == {"v1", "v2", "v3", "v4", "v5"}

\* the vehicles found on the two lanes
Placements ==
    {[lane1 |-> a, lane2 |-> b] :
        a \in {<<>>, <<"v1">>, <<"v1", "v2">>, <<"v1", "v2", "v3">>},
        b \in {<<>>, <<"v4">>, <<"v4", "v5">>}}

\* a vehicle as it drives before any accident: default deceleration and speed mode
Driving(speed) == [speed |-> speed, decel |-> 4, speed_mode |-> 31]

SimulateAccident ==
    /\ \A v \in VehicleIds : vehicle[v].speed <= MaxSpeed
    /\ vehicle' = simulate_accident_vehicles(lane_vehicles, vehicle)
    /\ last' = [op |-> "simulate_accident"]
    /\ UNCHANGED <<cfgVars, phaseVars, envVars, bufVars, trainVars, lane_vehicles,
                   detectorVars, graphVars, mixVars>>

InitAccident ==
    /\ action_type = "binary"
    /\ use_phase_one_hot = FALSE
    /\ traffic_light_ids = <<"tl1">>
    /\ InitWithEnv(initialize_sumo([c \in Agents |-> 0]))
    /\ buffer = <<>>
    /\ pushed = <<>>
    /\ lane_vehicles \in Placements
    /\ vehicle \in [VehicleIds -> {Driving(v) : v \in 1..MaxSpeed}]
    /\ TrainIdle /\ DetectorIdle /\ GraphIdle /\ MixIdle
    /\ PhaseIdle
    /\ last = [op |-> "init"]

NextAccident == SimulateAccident

SpecAccident == InitAccident /\ [][NextAccident]_vars

(* the configuration of a controller's phases from a signal program *)
\* the characters of a signal-state string: green with and without priority,
\* amber, red and red+amber
SignalChars == {"G", "g", "y", "Y", "r", "u"}

\* the signal-state strings of at most MaxStateLen characters
StateStrings == UNION {[1..n -> SignalChars] : n \in 0..MaxStateLen}

\* the programs explored have two phases
Programs == [1..2 -> StateStrings]

\* no phase table has been set up yet
NotConfigured == [called |-> FALSE]

\* read_phases followed by setup_phase_durations
SetupPhases ==
    /\ ~durations.called
    /\ \E info \in {read_phase_info(phases)} :
          durations' = [called |-> TRUE, phase_info |-> info,
                        phase_min_durations |-> setup_phase_durations(info)]
    /\ last' = [op |-> "setup_phases"]
    /\ UNCHANGED <<cfgVars, envVars, bufVars, trainVars, accidentVars, detectorVars,
                   graphVars, mixVars, phases>>

InitPhases ==
    /\ action_type = "binary"
    /\ use_phase_one_hot = FALSE
    /\ traffic_light_ids = <<"tl1">>
    /\ InitWithEnv(connect_to_sumo(Blank))
    /\ buffer = <<>>
    /\ pushed = <<>>
    /\ TrainIdle /\ AccidentIdle /\ DetectorIdle /\ GraphIdle /\ MixIdle
    /\ phases \in Programs
    /\ durations = NotConfigured
    /\ last = [op |-> "init"]

NextPhases == SetupPhases

SpecPhases == InitPhases /\ [][NextPhases]_vars

(* ================================ claims =============================== *)
\* the time the current phase of c has been shown, as a pseudo_step call made now sees it
Elapsed(c) == simTime - current_phase_start_time[c]

\* the regulatory minimum of the type of phase p of controller c
RegMin(c, p) == regulatory_min_durations[identify_phase_type(program[c][p + 1])]

\* a setPhase command is among the commands a call sent to the simulator
SetPhaseSent(r) == \E i \in 1..Len(r.sent) : r.sent[i][1] = "setPhase"

\* a call left the three controller fields of c as they are now
ControllerUnchanged(r, c) ==
    /\ r.current_phase[c] = current_phase[c]
    /\ r.current_phase_start_time[c] = current_phase_start_time[c]
    /\ r.phase_changes[c] = phase_changes[c]

\* an env.step call in which some sumo_step call was cut short by a termination condition
CutShort == \E a \in DOMAIN last.outcome : last.outcome[a] \in {"budget", "no_vehicles"}

\* C1: in both action modes and for every action value, a pseudo_step call made
\* while elapsed < regulatory minimum of the current phase leaves current_phase,
\* current_phase_start_time and the phase-change log unchanged and sends no
\* setPhase command.
C1_NoEarlyTransition ==
    simulation_running =>
      \A c \in Agents : \A a \in ActionSpace(c) :
        Elapsed(c) < RegMin(c, current_phase[c]) =>
          LET r == pseudo_step(State, c, a)
          IN ControllerUnchanged(r, c) /\ ~SetPhaseSent(r)

\* the 4-phase controller at phase 0 was stepped at t=2 and is still at phase 0
C1_Witness ==
    /\ last.op = "step"
    /\ traffic_light_ids = <<"tl1">>
    /\ last.outcome["tl1"] = "too_early"
    /\ simTime = 3
    /\ current_phase["tl1"] = 0
    /\ current_phase_start_time["tl1"] = 0
    /\ phase_changes["tl1"] = <<>>

\* C2: for every entry of a controller's phase-change log, its time minus the
\* time of the preceding change (the previous entry's time, or the time of the
\* reset_tl at construction, 0, for the first entry) is at least the regulatory
\* minimum of the type of the entry's old phase.
C2_LogTiming ==
    \A c \in Agents : \A i \in 1..Len(phase_changes[c]) :
      LET e == phase_changes[c][i]
          before == IF i = 1 THEN 0 ELSE phase_changes[c][i - 1].time
      IN e.time - before >= RegMin(c, e.old_phase)

\* a controller has logged two changes
C2_Witness == \E c \in Agents : Len(phase_changes[c]) >= 2

\* C3: binary mode: pseudo_step(1) made when elapsed >= regulatory minimum of
\* the current phase sets current_phase to (current_phase + 1) mod num_phases
\* and current_phase_start_time to the current simulation time.
C3_BinaryAdvance ==
    (simulation_running /\ action_type = "binary") =>
      \A c \in Agents :
        Elapsed(c) >= RegMin(c, current_phase[c]) =>
          LET r == pseudo_step(State, c, 1)
          IN /\ r.current_phase[c] = (current_phase[c] + 1) % Len(program[c])
             /\ r.current_phase_start_time[c] = simTime

\* the 4-phase controller went from phase 0 to phase 1 at t=8, timer 8
C3_Witness ==
    /\ action_type = "binary"
    /\ last.op = "step"
    /\ traffic_light_ids = <<"tl1">>
    /\ last.outcome["tl1"] = "committed"
    /\ current_phase_start_time["tl1"] = 8
    /\ phase_changes["tl1"] = <<[time |-> 8, old_phase |-> 0, new_phase |-> 1]>>

\* C4: binary mode: pseudo_step(0) leaves current_phase, current_phase_start_time
\* and the phase-change log unchanged whatever the elapsed time, and sends no
\* setPhase command.
C4_BinaryStay ==
    (simulation_running /\ action_type = "binary") =>
      \A c \in Agents :
        LET r == pseudo_step(State, c, 0)
        IN ControllerUnchanged(r, c) /\ ~SetPhaseSent(r)

\* action 0 was applied after the minimum had elapsed: the phase was extended
C4_Witness ==
    /\ action_type = "binary"
    /\ last.op = "step"
    /\ \E a \in DOMAIN last.outcome : last.outcome[a] = "extended"

\* C5: multiphase mode: pseudo_step(a) commits (current_phase = a, timer = now,
\* one log entry) exactly when the minimum of the current phase has elapsed and
\* a is a phase index in 0..P-1 other than current_phase; otherwise phase, timer
\* and log are unchanged.
C5_MultiphaseCommit ==
    (simulation_running /\ action_type = "multiphase") =>
      \A c \in Agents : \A a \in ActionSpace(c) :
        LET r == pseudo_step(State, c, a)
            valid == a \in 0..(Len(program[c]) - 1) /\ a # current_phase[c]
        IN IF Elapsed(c) >= RegMin(c, current_phase[c]) /\ valid
           THEN /\ r.current_phase[c] = a
                /\ r.current_phase_start_time[c] = simTime
                /\ Len(r.phase_changes[c]) = Len(phase_changes[c]) + 1
           ELSE ControllerUnchanged(r, c)

\* one step in which a valid target was committed and, with the minimum
\* elapsed, an invalid target was refused
C5_Witness ==
    /\ action_type = "multiphase"
    /\ last.op = "step"
    /\ \E a, b \in DOMAIN last.outcome :
          last.outcome[a] = "committed" /\ last.outcome[b] = "refused"

\* C6: an env.step call in which no sumo_step call is cut short advances the
\* simulator by exactly one timestep, whatever the number of agents.
C6_OneAdvancePerStep ==
    (last.op = "step" /\ ~CutShort) => last.advanced = 1

\* C7: env.step returns done=True only when the simulator hit a termination
\* condition; otherwise it returns done=False with observations, global state
\* and reward that are not None.
C7_DoneOnlyOnTermination ==
    last.op = "step" =>
      /\ last.ret[4] => CutShort
      /\ ~CutShort => (/\ ~last.ret[4]
                       /\ last.ret[1] # None /\ last.ret[2] # None /\ last.ret[3] # None)

\* C8: a sumo_step call made with simulation_step >= max_steps, or with no
\* expected vehicles, returns (None, None, True), sets the truncated resp. the
\* terminated flag, and neither triggers simulate_accident, nor calls
\* pseudo_step, nor advances the simulator, nor increments the step counter.
C8_TerminationFirst ==
    \A c \in Agents : \A a \in ActionSpace(c) : \A draw, arrive \in BOOLEAN :
      LET spent == simulation_step >= simulation_max_steps
          r == sumo_step(State, c, a, draw, arrive)
      IN ((spent \/ (simulation_running /\ minExpected = 0))) =>
           /\ r.calls[c].ret = <<None, None, TRUE>>
           /\ IF spent THEN r.is_truncated /\ r.is_terminated = is_terminated
                       ELSE r.is_terminated /\ r.is_truncated = is_truncated
           /\ r.fired = <<>>
           /\ ~r.ps[c].called
           /\ r.sent = <<>>
           /\ r.simTime = simTime
           /\ r.simulation_step = simulation_step

\* a sumo_step call found the step budget spent and set the truncated flag
C8_Witness ==
    /\ last.op = "step"
    /\ \E a \in DOMAIN last.outcome : last.outcome[a] = "budget"
    /\ is_truncated
    /\ simulation_step = simulation_max_steps

\* C9: len(buffer) <= capacity always, and the buffer holds exactly the
\* min(pushes, capacity) most recently pushed items in insertion order.
C9_BoundedFifo ==
    /\ Len(buffer) <= Capacity
    /\ LET n == Len(pushed)
           k == IF n < Capacity THEN n ELSE Capacity
       IN buffer = SubSeq(pushed, n - k + 1, n)

\* more items than the capacity were pushed, the oldest ones are gone
C9_Witness ==
    /\ Len(pushed) = MaxPush
    /\ Len(buffer) = Capacity
    /\ \A i \in 1..MaxPush : pushed[i] = i
    /\ buffer[1] = MaxPush - Capacity + 1

\* C10: at most one simulator session is ever open, also inside reset(), and
\* right after reset() the session runs with truncated and terminated cleared
\* and max_steps and the step counter taken from the new session.
C10_SessionLifecycle ==
    /\ sessions <= 1
    /\ sessions = (IF simulation_running THEN 1 ELSE 0)
    /\ last.op = "reset" =>
         /\ last.max_open <= 1
         /\ sessions = 1
         /\ simulation_running /\ ~is_truncated /\ ~is_terminated
         /\ simulation_max_steps = EndTime
         /\ simTime = 0
         /\ simulation_step = simTime

\* a running session that had been stepped was reset
C10_Witness ==
    /\ last.op = "reset"
    /\ last.was_running
    /\ episode = 2
    /\ \E c \in Agents : current_phase_start_time[c] > 0

\* C11: the next-state team value that enters the TD target of train_step is
\* the value the target network gives the next maximal Q-values, not the value
\* of the online mixing network.
C11_TargetNetInTdTarget ==
    train_status = "running" =>
      \A k \in 1..Len(buffer) : \A qs \in TrainQs, next_qs \in TrainQs, updated \in TrainParams :
        LET r == train_step(Trainer, k, qs, next_qs, updated)
        IN r.trained => r.next_q_total = forward(target_net, next_qs)

\* C12: the target network's parameters change only in a loop iteration whose
\* incremented step counter is a multiple of update_target_rate; after every
\* such iteration they equal the online mixing network's, and no other
\* operation (train_step's optimizer update included) changes them.
C12_SyncCadence ==
    [][LET incremented == loop_step' = loop_step + 1
           due == incremented /\ loop_step' % UpdateTargetRate = 0
       IN /\ target_net' # target_net => due
          /\ due => target_net' = mixing_net']_vars

\* a synchronisation at step 2 replaced the target parameters by those the
\* optimizer had given the mixing network
C12_Witness ==
    /\ last.op = "train_iteration"
    /\ last.synced /\ last.trained
    /\ loop_step = UpdateTargetRate
    /\ target_net = mixing_net
    /\ last.target_before # target_net

\* a call fired the accident trigger of the given kind
Fired(r, kind) == \E i \in 1..Len(r.fired) : r.fired[i][2] = kind

\* C13: in a sumo_step call that is not cut short the interval trigger fires
\* exactly when simulation_step is a multiple of the accident interval and the
\* probability trigger fires exactly when its draw is below the accident
\* probability, each whatever the other does.
C13_IndependentTriggers ==
    (simulation_running /\ simulation_step < simulation_max_steps /\ minExpected > 0) =>
      \A c \in Agents : \A a \in ActionSpace(c) : \A draw, arrive \in BOOLEAN :
        LET r == sumo_step(State, c, a, draw, arrive)
        IN /\ Fired(r, "interval") <=>
                (AccidentInterval # 0 /\ simulation_step % AccidentInterval = 0)
           /\ Fired(r, "probability") <=> draw

\* C15: collect_data, in the scalar and in the one-hot phase encoding, leaves
\* current_phase, current_phase_start_time and the phase-change log of its
\* controller unchanged.
C15_CollectDataFrame ==
    simulation_running =>
      \A c \in Agents : ControllerUnchanged(collect_data(State, c), c)

\* C14: a simulate_accident call changes the first two vehicles A, B of the
\* first lane (in lane-list order) that holds two vehicles: A gets speed 0 and
\* deceleration 9, B gets speed mode 0 and its speed before the call + 10; no
\* other vehicle is changed, and no vehicle at all when no lane holds two.
C14_AccidentFrame ==
    LET r == simulate_accident_vehicles(lane_vehicles, vehicle)
        pairs == {i \in 1..Len(LaneIds) : Len(lane_vehicles[LaneIds[i]]) >= 2}
    IN IF pairs = {} THEN r = vehicle
       ELSE LET first == CHOOSE i \in pairs : \A j \in pairs : i <= j
                A == lane_vehicles[LaneIds[first]][1]
                B == lane_vehicles[LaneIds[first]][2]
            IN /\ r[A] = [vehicle[A] EXCEPT !.speed = 0, !.decel = 9]
               /\ r[B] = [vehicle[B] EXCEPT !.speed_mode = 0, !.speed = vehicle[B].speed + 10]
               /\ \A v \in VehicleIds \ {A, B} : r[v] = vehicle[v]

\* an accident on lane1 with three vehicles while lane2 holds two: v1 stopped,
\* v2 boosted, v3 and the vehicles of lane2 as they were
C14_Witness ==
    /\ last.op = "simulate_accident"
    /\ lane_vehicles = [lane1 |-> <<"v1", "v2", "v3">>, lane2 |-> <<"v4", "v5">>]
    /\ vehicle["v1"] = [speed |-> 0, decel |-> 9, speed_mode |-> 31]
    /\ vehicle["v2"] = [speed |-> MaxSpeed + 10, decel |-> 4, speed_mode |-> 0]
    /\ \A v \in {"v3", "v4", "v5"} : vehicle[v] = Driving(1)

\* C16: whenever a simulator call raises during controller configuration,
\* pseudo_step or sumo_step, the caller of the operation gets that exception:
\* it is neither swallowed nor replaced by a default value.
C16_FailFast ==
    (last.op \in {"configure", "sumo_step"} /\ last.failed) => last.raised = SimulatorError

\* the e1 detectors whose reading of a metric is not negative
Valid(metric) ==
    {d \in {Detectors[i] : i \in 1..Len(Detectors)} : is_e1det(d) /\ readings[d][metric] >= 0}

RECURSIVE SumOver(_, _)
SumOver(S, metric) ==
    IF S = {} THEN 0
    ELSE LET d == CHOOSE x \in S : TRUE
         IN readings[d][metric] + SumOver(S \ {d}, metric)

\* C17: for mean speed and for occupancy, collect_data returns the mean of the
\* non-negative readings: a negative reading enters neither the sum nor the
\* divisor.
C17_NegativeReadingsExcluded ==
    LET r == collect_data_averages(readings)
    IN \A metric \in {"mean_speed", "occupancy"} :
         LET n == Cardinality(Valid(metric))
         IN r[metric].num * (IF n > 0 THEN n ELSE 1) = SumOver(Valid(metric), metric) * r[metric].den

C19_GraphEdges ==
    (graph # NotBuilt /\ interface_type = "traci") =>
      LET n == graph.num_nodes
          src == graph.edge_index[1]
          dst == graph.edge_index[2]
          idx == graph.node_idx_map
      IN /\ n = Len(traffic_light_ids)
         /\ DOMAIN idx = Agents
         /\ {idx[c] : c \in Agents} = 0..(n - 1)
         /\ \A c, d \in Agents : idx[c] = idx[d] => c = d
         /\ Len(src) = Len(dst)
         /\ \A k \in 1..Len(src) : src[k] \in 0..(n - 1) /\ dst[k] \in 0..(n - 1)
         /\ \A c, d \in Agents :
               (\E k \in 1..Len(src) : src[k] = idx[c] /\ dst[k] = idx[d])
               <=> (\E a \in 1..Len(controlled_lanes[c]) :
                      \E m \in 1..Len(lane_links[controlled_lanes[c][a]]) :
                         getToJunction(getEdgeID(lane_links[controlled_lanes[c][a]][m])) = d)

\* a graph with the one edge tl2 -> tl3: a link to the unsignalled junction j0
\* and the lane of tl3 without links add nothing
C19_Witness ==
    /\ last.op = "build_graph"
    /\ interface_type = "traci"
    /\ controlled_lanes = [tl2 |-> <<"in_a">>, tl3 |-> <<"in_b">>]
    /\ lane_links = [in_a |-> <<"o_tl3", "o_j0">>, in_b |-> <<>>]
    /\ graph.edge_index = << <<0>>, <<1>> >>
    /\ graph.node_idx_map = [tl2 |-> 0, tl3 |-> 1]

\* C20: with the global state and the hypernetwork parameters fixed, raising
\* agents' individual Q-values never lowers the team value of the mixing network.
C20_MonotonicMixing ==
    [][(/\ last.op = "forward" /\ last'.op = "forward"
        /\ mixing_net' = mixing_net
        /\ \A i \in 1..Len(agent_qs) : agent_qs[i] <= agent_qs'[i])
       => q_total <= q_total']_vars

\* hypernetworks that put out negative weights for both layers: the team value
\* of the highest Q-values lies above that of the lowest
C20_Witness ==
    /\ last.op = "forward"
    /\ \E i \in 1..Len(agent_qs) : \E j \in EmbedIdx :
          mixing_net.w1[i][j] < 0 /\ mixing_net.w2[j] < 0
    /\ agent_qs = [i \in 1..Len(traffic_light_ids) |-> MaxQ]
    /\ q_total > forward(mixing_net, [i \in 1..Len(traffic_light_ids) |-> 0 - MaxQ])

\* a is an initial segment of b
IsPrefix(a, b) == Len(a) <= Len(b) /\ SubSeq(b, 1, Len(a)) = a

\* C21: a pseudo_step call appends exactly one entry to the phase-change log
\* if and only if it commits a transition (sends setPhase), the entry holding
\* the simulation time of the call, current_phase before the call and
\* current_phase after it, and otherwise leaves the controller alone; every
\* operation only appends to a log, and reset_tl empties it.
C21_CommitsLogged ==
    /\ [](simulation_running =>
            \A c \in Agents : \A a \in ActionSpace(c) :
              LET r == pseudo_step(State, c, a)
              IN IF SetPhaseSent(r)
                 THEN r.phase_changes[c] =
                          Append(phase_changes[c],
                                 [time |-> simTime, old_phase |-> current_phase[c],
                                  new_phase |-> r.current_phase[c]])
                 ELSE ControllerUnchanged(r, c))
    /\ [](simulation_running =>
            \A c \in Agents : \A p \in PhaseIdx[c] :
              reset_tl(State, c, p).phase_changes[c] = <<>>)
    /\ [][\A c \in Agents : IsPrefix(phase_changes[c], phase_changes'[c])]_vars

\* multiphase: the 4-phase controller, reset to amber, committed to all-red at
\* t=3 and to green at t=4; the log holds the two entries
C21_Witness ==
    /\ action_type = "multiphase"
    /\ traffic_light_ids = <<"tl1">>
    /\ last.op = "step"
    /\ last.outcome["tl1"] = "committed"
    /\ simTime = 5
    /\ phase_changes["tl1"] = <<[time |-> 3, old_phase |-> 1, new_phase |-> 2],
                                [time |-> 4, old_phase |-> 2, new_phase |-> 0]>>

\* C22: a sumo_step call that no termination condition cuts short calls the
\* named controller's pseudo_step with the action at the time of entry, then
\* advances the simulator once and the step counter by 1, then collects that
\* controller's observation from the advanced simulator; the reward it returns
\* is the negated reward metric of that observation.
C22_StepOrder ==
    (simulation_running /\ simulation_step < simulation_max_steps /\ minExpected > 0) =>
      \A c \in Agents : \A a \in ActionSpace(c) : \A draw, arrive \in BOOLEAN :
        LET r == sumo_step(State, c, a, draw, arrive)
            s1 == pseudo_step(State, c, a)
            s2 == simulationStep(s1, arrive)
            s3 == collect_data(s2, c)
        IN /\ r.ps[c].called /\ r.ps[c].action = a /\ r.ps[c].now = simTime
           /\ r.ps[c].post_log = s1.phase_changes[c]
           /\ r.simTime = simTime + 1
           /\ r.simulation_step = simulation_step + 1
           /\ r.calls[c].observation =
                  [current_phase |-> s3.current_phase[c],
                   halt_count |-> getLastStepHaltingNumber(s2, c)]
           /\ r.calls[c].reward = 0 - r.calls[c].observation[RewardMetric]

\* the 4-phase controller committed to amber at t=8 with its vehicle still
\* under way: the observation collected after the advance counts one halting
\* vehicle
C22_Witness ==
    /\ last.op = "step"
    /\ traffic_light_ids = <<"tl1">>
    /\ last.outcome["tl1"] = "committed"
    /\ last.advanced = 1
    /\ simTime = 9
    /\ simPhase["tl1"] = 1
    /\ getLastStepHaltingNumber(State, "tl1") = 1

\* some character of a signal-state string is one of the given characters
Contains(state_str, chars) == \E i \in 1..Len(state_str) : state_str[i] \in chars

\* C23: every signal-state string gets exactly one type: green if it contains
\* 'G' or 'g', else amber if it contains 'y' or 'Y', else all-red if every
\* character is 'r', else clearance; and the minimum duration of each phase
\* index is the fixed value of its type: green 7, amber 3, all-red 1,
\* clearance 3.
C23_PhaseClassification ==
    durations.called =>
      /\ DOMAIN durations.phase_info = 0..(Len(phases) - 1)
      /\ DOMAIN durations.phase_min_durations = 0..(Len(phases) - 1)
      /\ \A idx \in 0..(Len(phases) - 1) :
            LET state_str == phases[idx + 1]
                type == durations.phase_info[idx].type
                min == durations.phase_min_durations[idx]
            IN IF Contains(state_str, {"G", "g"}) THEN type = "green" /\ min = 7
               ELSE IF Contains(state_str, {"y", "Y"}) THEN type = "amber" /\ min = 3
               ELSE IF \A i \in 1..Len(state_str) : state_str[i] = "r"
                    THEN type = "all-red" /\ min = 1
               ELSE type = "clearance" /\ min = 3

\* a program whose first phase holds an amber and a green character and whose
\* second phase holds red and red+amber: green (7 s) and clearance (3 s)
C23_Witness ==
    /\ last.op = "setup_phases"
    /\ phases = << <<"y", "G">>, <<"r", "u">> >>
    /\ durations.called
    /\ durations.phase_info[0].type = "green"
    /\ durations.phase_min_durations[0] = 7
    /\ durations.phase_info[1].type = "clearance"
    /\ durations.phase_min_durations[1] = 3

\* C24: every iteration of the training loop pushes exactly one transition,
\* the one of its env.step, and samples at most once, after the push; it
\* samples, and changes the online parameters, only when the step counter has
\* reached warmup_steps; and a train_step call made while the buffer holds
\* fewer than batch_size transitions samples nothing and updates nothing.
C24_BufferUse ==
    /\ [][last'.op = "train_iteration" =>
            /\ last'.ops \in {<<"push">>, <<"push", "sample">>}
            /\ buffer' = push(buffer, last'.ret)
            /\ last'.ops = <<"push", "sample">> => loop_step >= WarmupSteps
            /\ mixing_net' # mixing_net =>
                  last'.ops = <<"push", "sample">> /\ loop_step >= WarmupSteps]_vars
    /\ [](train_status # Idle /\ Len(buffer) < BatchSize =>
            \A qs \in TrainQs, next_qs \in TrainQs, updated \in TrainParams :
              LET r == train_step(Trainer, 1, qs, next_qs, updated)
              IN ~r.sampled /\ ~r.trained /\ r.trainer = Trainer)

\* an iteration made with the step counter at or past warmup_steps pushed the
\* third transition, sampled and changed the online parameters
C24_Witness ==
    /\ last.op = "train_iteration"
    /\ last.ops = <<"push", "sample">>
    /\ last.trained
    /\ ~last.synced
    /\ Len(buffer) = 3
    /\ mixing_net = Uniform(1, 0, 0, 1)
    /\ target_net = Uniform(0, 0, 1, 0)

\* C25: while a session is open, the current_phase_start_time of every
\* controller is not later than the simulation time of the session, so the
\* elapsed time pseudo_step computes is not negative; also right after
\* env.reset() has restarted the session.
C25_TimerNotAhead ==
    simulation_running => \A c \in Agents : current_phase_start_time[c] <= simTime

\* C26: within the first session, in both phase encodings and after any
\* sequence of pseudo_step and collect_data calls, the phase-change log of a
\* controller is a chain: each entry's old_phase is the new_phase of the entry
\* before it and its time is not smaller, and the new_phase of the last entry
\* is the controller's current_phase.
C26_LogChain ==
    episode = 1 =>
      \A c \in Agents :
        LET log == phase_changes[c]
        IN /\ \A i \in 2..Len(log) :
                 /\ log[i].old_phase = log[i - 1].new_phase
                 /\ log[i].time >= log[i - 1].time
           /\ Len(log) > 0 => log[Len(log)].new_phase = current_phase[c]

\* C27: every transition the training loop has pushed into the replay buffer
\* is complete: its next observations, next global state and reward are not
\* None, also when it is the transition of the step that env.step reported
\* done.
C27_CompleteTransitions ==
    train_status # Idle => \A i \in 1..Len(buffer) : ~buffer[i].is_none

\* C28: in both action modes, when the simulator call of a pseudo_step call
\* that reads the time, sets the phase or sets the phase duration raises, the
\* caller gets the simulator's exception and current_phase,
\* current_phase_start_time and the phase-change log of the controller are as
\* before the call.
C28_PseudoStepAtomic ==
    (simulation_running /\ Alive) =>
      \A c \in Agents : \A a \in ActionSpace(c) : \A fault \in PseudoStepFaults :
        LET r == try_pseudo_step(State, c, a, fault)
        IN /\ r.failed => (r.raised = SimulatorError /\ ControllerUnchanged(r.state, c))
           /\ (fault = "getTime" \/ (fault = "setPhase" /\ SetPhaseSent(pseudo_step(State, c, a))))
                 => r.failed

\* multiphase: the 4-phase controller committed from all-red to clearance at
\* t=1; at t=4, with the minimum of clearance elapsed and a permissible
\* target, setPhase raised: the controller stands as the commit of t=1 left it
C28_Witness ==
    /\ action_type = "multiphase"
    /\ traffic_light_ids = <<"tl1">>
    /\ last.op = "sumo_step" /\ last.failed /\ last.fault = "setPhase"
    /\ last.raised = SimulatorError
    /\ simTime = 4
    /\ current_phase["tl1"] = 3
    /\ current_phase_start_time["tl1"] = 1
    /\ phase_changes["tl1"] = <<[time |-> 1, old_phase |-> 2, new_phase |-> 3]>>

\* C29: within a session the step counter never exceeds max_steps and the
\* simulator, started at time 0, has been advanced at most max_steps times,
\* whatever sumo_step calls were made for whatever agents; and a truncated flag
\* that is set stays set until the next connect.
C29_StepBudget ==
    /\ [](/\ simulation_step <= simulation_max_steps
          /\ simTime <= simulation_max_steps)
    /\ [][is_truncated => (is_truncated' \/ last'.op = "reset")]_vars

\* the budget was used up to the last step, a further call set the truncated
\* flag, and the flag is still set after the session was closed
C29_Witness ==
    /\ last.op = "close"
    /\ last.was_running
    /\ is_truncated
    /\ simulation_step = simulation_max_steps
    /\ simTime = simulation_max_steps

\* C30: for libsumo and for traci alike, the graph build_graph hands to
\* initialize_sumo is not None and holds a node-index map and an edge list,
\* and the environment reads the edge list from it at construction without an
\* exception.
C30_GraphAfterInitialize ==
    last.op = "build_graph" =>
      /\ graph # NoGraph
      /\ {"node_idx_map", "edge_index"} \subseteq DOMAIN graph
      /\ initialize_environment(graph).raised = None
      /\ initialize_environment(graph).edge_index = graph.edge_index
====
